---- MODULE Spec2Model ----
(***************************************************************************)
(* Reliable file transfer over UDP with Go-Back-N and Selective-Repeat.    *)
(* Two program pairs share the wire format:                                *)
(*   server1.py / client1.py : DOWNLOAD and UPLOAD_GBN / UPLOAD_SR         *)
(*   server2.py / client2.py : REQUEST (download only)                     *)
(* One transfer is modelled: a client program "C", a server program "S",   *)
(* the datagrams in flight, and (in SpecPeers) a second peer "P" that      *)
(* writes to the server's socket.  SpecLossy and SpecSimLoss add the       *)
(* fairness under which termination is checked.                            *)
(***************************************************************************)
EXTENDS Integers, Sequences, FiniteSets, TLC

\* ---------------------------------------------------------------- bounds
\* Datagrams in flight at once; a send into a full network is dropped.
MaxInFlight == 2
\* A datagram in flight is lost once a datagram of its kind numbered more
\* than MaxLag above it is sent the same way (bounded delay).
MaxLag == 3
\* Length of the runs of equal bytes in the test blobs (not a multiple of
\* PACKET_SIZE, so chunks cut through runs).
RunLen == 700

\* ------------------------------------------------------ program constants
PACKET_SIZE == 1024
WINDOW_SIZE == 4
UPLOAD_WINDOW == 4
THRESHOLD == 20 * 1024
\* client2: receive timeout (s) and the idle limit (s) of its receive loop
CLIENT_TIMEOUT == 2
max_idle_time == 5

\* Python's None where an int is expected (every parsed int is >= 0 or an
\* ACK number >= -1, so -2 is free).
None == -2

\* ------------------------------------------------------------------ bytes
\* A byte string is a sequence of tokens.  A token is a piece of header
\* text, a decimal integer, or a run of n equal payload bytes of value v.
Lit(s) == [k |-> s, v |-> 0, n |-> 0]
Num(i) == [k |-> "int", v |-> i, n |-> 0]
Run(b, c) == [k |-> "run", v |-> b, n |-> c]

IsInt(t) == t.k = "int"
IsRun(t) == t.k = "run"
\* header words that end in ':' (what str.split(":") cuts at)
ColonWords == {"SEQ:", "TOTAL:", "OK:", "SIZE:", "ACK:", "ERROR:",
               "DOWNLOAD:", "REQUEST:", "UPLOAD_GBN:", "UPLOAD_SR:"}
IsColonWord(t) == t.k \in ColonWords
\* tokens that begin with '|' (what str.split("|") cuts at)
IsBar(t) == t.k \in {"|", "|DATA:"}

\* len(b) of a payload
RECURSIVE BLen(_)
BLen(b) == IF b = << >> THEN 0 ELSE Head(b).n + BLen(Tail(b))

\* b[k:]
RECURSIVE Drop(_, _)
Drop(b, k) ==
    IF k <= 0 \/ b = << >> THEN b
    ELSE IF Head(b).n <= k THEN Drop(Tail(b), k - Head(b).n)
    ELSE << Run(Head(b).v, Head(b).n - k) >> \o Tail(b)

\* b[:k]
RECURSIVE Take(_, _)
Take(b, k) ==
    IF k <= 0 \/ b = << >> THEN << >>
    ELSE IF Head(b).n <= k THEN << Head(b) >> \o Take(Tail(b), k - Head(b).n)
    ELSE << Run(Head(b).v, k) >>

\* b[lo:hi]
Slice(b, lo, hi) == Take(Drop(b, lo), hi - lo)

\* a + b on payload bytes (adjacent runs of one value are one run)
Cat(a, b) ==
    IF a = << >> THEN b
    ELSE IF b = << >> THEN a
    ELSE IF a[Len(a)].v = b[1].v
         THEN SubSeq(a, 1, Len(a) - 1)
              \o << Run(b[1].v, a[Len(a)].n + b[1].n) >> \o Tail(b)
         ELSE a \o b

\* A test blob of the given size: runs of RunLen bytes valued 1, 2, 3, ...
RECURSIVE MkRuns(_, _)
MkRuns(size, b) ==
    IF size <= 0 THEN << >>
    ELSE IF size <= RunLen THEN << Run(b, size) >>
    ELSE << Run(b, RunLen) >> \o MkRuns(size - RunLen, (b % 255) + 1)
MkBlob(size) == MkRuns(size, 1)

\* ------------------------------------------------------------------ codec
make_packet(seq, tot, data) ==
    << Lit("SEQ:"), Num(seq), Lit("|"), Lit("TOTAL:"), Num(tot), Lit("|DATA:") >>
    \o data

\* data.rfind(b"|DATA:"): index of the last delimiter token, 0 when absent
FindData_last(data) ==
    IF \E i \in 1..Len(data) : data[i].k = "|DATA:"
    THEN CHOOSE i \in 1..Len(data) :
            /\ data[i].k = "|DATA:"
            /\ \A j \in (i + 1)..Len(data) : data[j].k # "|DATA:"
    ELSE 0

\* data.find(b"|DATA:"): index of the first delimiter token, 0 when absent
FindData(data) ==
    IF \E i \in 1..Len(data) : data[i].k = "|DATA:"
    THEN CHOOSE i \in 1..Len(data) :
            /\ data[i].k = "|DATA:"
            /\ \A j \in 1..(i - 1) : data[j].k # "|DATA:"
    ELSE 0

\* re.search(word + r"(\d+)", header): the first place where the word is
\* followed by a non-negative integer; None when there is none
SearchInt(header, word) ==
    LET hits == {i \in 1..(Len(header) - 1) :
                    /\ header[i].k = word
                    /\ IsInt(header[i + 1]) /\ header[i + 1].v >= 0}
    IN IF hits = {} THEN None
       ELSE header[(CHOOSE i \in hits : \A j \in hits : i <= j) + 1].v

\* returns <<seq, total, content>>, <<None, None, None>> on failure
parse_packet(data) ==
    LET header_end == FindData(data)
        header == SubSeq(data, 1, header_end - 1)
        content == SubSeq(data, header_end + 1, Len(data))
        seq == SearchInt(header, "SEQ:")
        tot == SearchInt(header, "TOTAL:")
    IN IF header_end = 0 THEN << None, None, None >>
       ELSE IF seq # None /\ tot # None THEN << seq, tot, content >>
       ELSE << None, None, None >>

\* "OK:<protocol>|SIZE:<file_size>"
init_response(protocol, file_size) ==
    << Lit("OK:"), Lit(protocol), Lit("|"), Lit("SIZE:"), Num(file_size) >>

\* parts = msg.split("|"); proto = parts[0].split(":")[1];
\* size = int(parts[1].split(":")[1]); any exception gives (None, None).
\* The protocol is returned as the token that follows the first ':'.
parse_init_response(msg) ==
    IF /\ Len(msg) >= 5
       /\ IsColonWord(msg[1]) /\ ~IsBar(msg[2])
       /\ msg[3].k = "|"
       /\ IsColonWord(msg[4]) /\ IsInt(msg[5])
       /\ (Len(msg) = 5 \/ IsBar(msg[6]))
    THEN << msg[2], msg[5].v >>
    ELSE << Lit("None"), None >>

\* a test for END that any one-word datagram passes
IsEND_word(msg) == Len(msg) = 1

IsEND(msg) == msg = << Lit("END") >>
\* an acknowledgement that carries the number after the one asked for
ACK_next(n) == << Lit("ACK:"), Num(n + 1) >>

ACK(n) == << Lit("ACK:"), Num(n) >>
\* ack_msg.startswith("ACK:")
IsACK(msg) == Len(msg) >= 1 /\ msg[1].k = "ACK:"
\* a reading of the acknowledgement's number that is one too high
AckNum_next(msg) == msg[2].v + 1

\* int(ack_msg.split(":")[1]) of a well-formed acknowledgement
AckNum(msg) == msg[2].v

\* ---------------------------------------------------- segmenter/reassembler
\* len(file_data) // PACKET_SIZE: a count that rounds down
total_packets_floor(data) == BLen(data) \div PACKET_SIZE

\* math.ceil(len(file_data) / PACKET_SIZE)
total_packets(data) == (BLen(data) + PACKET_SIZE - 1) \div PACKET_SIZE

\* for seq in sorted(received_packets.keys()): file_data += received_packets[seq]
RECURSIVE JoinSorted(_, _)
JoinSorted(d, keys) ==
    IF keys = {} THEN << >>
    ELSE LET hi == CHOOSE x \in keys : \A y \in keys : y <= x
         IN CHOOSE r \in {Cat(before, d[hi]) : before \in {JoinSorted(d, keys \ {hi})}} :
                TRUE
reassemble(received) == JoinSorted(received, DOMAIN received)

\* b"".join(received_data)
RECURSIVE JoinList(_)
JoinList(l) ==
    IF l = << >> THEN << >>
    ELSE CHOOSE r \in {Cat(before, l[Len(l)]) :
                        before \in {JoinList(SubSeq(l, 1, Len(l) - 1))}} : TRUE

\* ------------------------------------------------------ protocol selection
\* server1.handle_download / server2.main
server_protocol(file_size) == IF file_size < THRESHOLD THEN "SR" ELSE "GBN"
\* client1.upload_file
upload_protocol(file_size) == IF file_size > THRESHOLD THEN "GBN" ELSE "SR"

\* ------------------------------------------------------------------ state
VARIABLES
    pair,             \* "s1c1": server1.py with client1.py; "s2c2": server2.py with client2.py
    op,               \* "DOWNLOAD" or "UPLOAD": what the user asked the client for
    file_size,        \* os.path.getsize of the file to transfer
    is_file,          \* os.path.isfile of it, on the side that holds it
    channel,          \* "lossy": bounded, losing, duplicating network; "reliable": none of it
    net,              \* datagrams in flight: [to, from, data]
    cpc,              \* client: "start", "init", "ready", "recv", "send", "done"
    spc,              \* server: "main", "send", "recv"
    client_addr,      \* server: the address its current handler answers to
    skind,            \* sender engine running: "s1_gbn", "s1_sr", "s2_gbn", "s2_sr", "c1_gbn", "c1_sr"
    total,            \* sender: len(packets)
    base, next_seq,   \* GBN sender
    ack_received,     \* server1.gbn_send: the seqs whose flag is True
    acked, window,    \* SR sender: seqs whose flag is True; dict seq -> packet
    ends_sent,        \* number of END datagrams handed to sendto
    rkind,            \* receiver engine running: "c1_gbn", "c1_sr", "c2", "s1_gbn", "s1_sr"
    expected_seq,     \* GBN receiver
    received_packets, \* dict seq -> content
    received_data,    \* server1.handle_upload_gbn: list of contents
    expected_total,   \* total of the first decoded frame, None before it
    idle,             \* client2: receive timeouts in a row since last_receive_time
    rexit,            \* how the receive loop was left: "no", "END", "idle", "exception"
    sink              \* the file written by the receiver: << "none" >> or << "file", bytes >>

vars == << pair, op, file_size, is_file, channel, net, cpc, spc, client_addr, skind,
           total, base, next_seq, ack_received, acked, window, ends_sent, rkind,
           expected_seq, received_packets, received_data, expected_total,
           idle, rexit, sink >>

cfgVars == << pair, op, file_size, is_file, channel >>
sndVars == << skind, total, base, next_seq, ack_received, acked, window, ends_sent >>
rcvVars == << rkind, expected_seq, received_packets, received_data,
              expected_total, idle, rexit, sink >>

\* The transfers checked: <<programs, operation, file size>>.
Transfers ==
    {<< "s1c1", "DOWNLOAD", 0 >>, << "s1c1", "DOWNLOAD", 5000 >>,
     << "s1c1", "DOWNLOAD", 20 * 1024 >>,
     << "s2c2", "DOWNLOAD", 500 >>, << "s2c2", "DOWNLOAD", 5000 >>,
     << "s2c2", "DOWNLOAD", 20 * 1024 >>,
     << "s1c1", "UPLOAD", 500 >>, << "s1c1", "UPLOAD", 5000 >>,
     << "s1c1", "UPLOAD", 20 * 1024 + 1 >>}
\* the transfers during which a second peer writes to the server's socket
TransfersPeers ==
    {<< "s1c1", "UPLOAD", 5000 >>, << "s1c1", "UPLOAD", 20 * 1024 + 1 >>,
     << "s1c1", "DOWNLOAD", 5000 >>, << "s2c2", "DOWNLOAD", 5000 >>}
\* the transfers checked for termination
TransfersFair ==
    {<< "s1c1", "DOWNLOAD", 5000 >>, << "s2c2", "DOWNLOAD", 5000 >>,
     << "s1c1", "UPLOAD", 5000 >>}
\* the transfers checked for their segmentation
TransfersSegments ==
    {<< "s1c1", "DOWNLOAD", 25000 >>, << "s2c2", "DOWNLOAD", 25000 >>,
     << "s1c1", "UPLOAD", 25000 >>,
     << "s1c1", "DOWNLOAD", 0 >>, << "s2c2", "DOWNLOAD", 0 >>, << "s1c1", "UPLOAD", 0 >>,
     << "s1c1", "DOWNLOAD", 1 >>, << "s2c2", "DOWNLOAD", 1024 >>,
     << "s1c1", "UPLOAD", 1025 >>}
Sizes == {t[3] : t \in Transfers \cup TransfersSegments}

\* The blob B of each size (f.read()), and the list of packets built from it:
\*   total_packets = math.ceil(len(file_data) / PACKET_SIZE)
\*   packets[i] = make_packet(i, total_packets, file_data[i*PACKET_SIZE:(i+1)*PACKET_SIZE])
Blobs == [sz \in Sizes |-> MkBlob(sz)]
PacketLists ==
    [sz \in Sizes |->
        [i \in 0..(total_packets(Blobs[sz]) - 1) |->
            make_packet(i, total_packets(Blobs[sz]),
                        Slice(Blobs[sz], i * PACKET_SIZE, (i + 1) * PACKET_SIZE))]]
\* file_data[i*PACKET_SIZE:(i+1)*PACKET_SIZE] for every i: the segmentation of B
Segments ==
    [sz \in Sizes |->
        [i \in 0..(total_packets(Blobs[sz]) - 1) |->
            Slice(Blobs[sz], i * PACKET_SIZE, (i + 1) * PACKET_SIZE)]]
file_data == Blobs[file_size]
packets(i) == PacketLists[file_size][i]

NoFile == << "none" >>
File(b) == << "file", b >>

\* ---------------------------------------------------------------- network
Dgram(to, from, data) == [to |-> to, from |-> from, data |-> data]

\* the number a frame or an acknowledgement carries, None for other datagrams
Stamp(d) == IF Len(d) >= 2 /\ d[1].k \in {"SEQ:", "ACK:"} THEN d[2].v ELSE None
\* x has been overtaken too far by m
Overtaken(x, m) ==
    /\ x.to = m.to
    /\ Stamp(x.data) # None /\ Stamp(m.data) # None
    /\ x.data[1].k = m.data[1].k
    /\ Stamp(x.data) < Stamp(m.data) - MaxLag
Fresh(n, m) == {x \in n : ~Overtaken(x, m)}

\* sock.close() at the end of the client's main: datagrams for the client
\* are discarded from then on
Closed(n) == {x \in n : x.to # "C"}

\* sock.sendto: the datagram is in flight unless the network is full
Send(n, m) ==
    IF m.to = "C" /\ cpc = "done" THEN n
    ELSE IF channel = "reliable" THEN n \cup {m}
    ELSE LET kept == Fresh(n, m)
         IN IF Cardinality(kept) < MaxInFlight THEN kept \cup {m} ELSE kept

\* sendto for each element of a sequence of datagrams, in order
RECURSIVE SendSeq(_, _)
SendSeq(n, ms) ==
    IF ms = << >> THEN n
    ELSE CHOOSE r \in {SendSeq(sent, rest) : sent \in {Send(n, Head(ms))},
                                             rest \in {Tail(ms)}} : TRUE

\* what is left in flight after m was read; the network may deliver m again
Taken(m, again) == IF again /\ channel = "lossy" THEN net ELSE net \ {m}

\* ------------------------------------------------------------------- Init
\* the state before the client sends its request
Start ==
    /\ net = {}
    /\ cpc = "start"
    /\ spc = "main"
    /\ client_addr = "none"
    /\ skind = "none"
    /\ total = 0
    /\ base = 0 /\ next_seq = 0
    /\ ack_received = {} /\ acked = {} /\ window = << >>
    /\ ends_sent = 0
    /\ rkind = "none"
    /\ expected_seq = 0
    /\ received_packets = << >>
    /\ received_data = << >>
    /\ expected_total = None
    /\ idle = 0
    /\ rexit = "no"
    /\ sink = NoFile

Init ==
    /\ \E t \in Transfers : pair = t[1] /\ op = t[2] /\ file_size = t[3]
    /\ is_file \in BOOLEAN
    /\ channel = "lossy"
    /\ Start

\* ------------------------------------------------------- python dict helpers
Put(d, key, val) == [x \in (DOMAIN d) \cup {key} |-> IF x = key THEN val ELSE d[x]]
Del(d, key) == [x \in (DOMAIN d) \ {key} |-> d[x]]

\* the elements of a finite set of integers in ascending order
RECURSIVE Ascending(_)
Ascending(S) ==
    IF S = {} THEN << >>
    ELSE CHOOSE r \in {<< lo >> \o Ascending(S \ {lo}) :
                        lo \in {x \in S : \A y \in S : x <= y}} : TRUE

Min(a, b) == IF a < b THEN a ELSE b

\* ------------------------------------------------------------ engine set-up
\* the locals of gbn_send / sr_send / upload_gbn_send / upload_sr_send on entry
StartSender(kind) ==
    /\ skind' = kind
    /\ total' = Cardinality(DOMAIN PacketLists[file_size])
    /\ base' = 0 /\ next_seq' = 0
    /\ ack_received' = {} /\ acked' = {} /\ window' = << >>
    /\ UNCHANGED ends_sent

\* the locals of a receive routine before its loop
StartReceiver(kind) ==
    /\ rkind' = kind
    /\ expected_seq' = 0
    /\ received_packets' = << >> /\ received_data' = << >>
    /\ expected_total' = None
    /\ idle' = 0
    /\ rexit' = "no"
    /\ UNCHANGED sink

READY == << Lit("READY") >>
END == << Lit("END") >>
ERROR(text) == << Lit("ERROR:"), Lit(text) >>
\* msg.startswith(word) for a header word
StartsWith(msg, word) == Len(msg) >= 1 /\ msg[1].k = word

\* ----------------------------------------------------------------- client
\* client1.download_file / client2.main: the request
download_request ==
    /\ cpc = "start" /\ op = "DOWNLOAD"
    /\ net' = Send(net, Dgram("S", "C",
                 IF pair = "s1c1" THEN << Lit("DOWNLOAD:"), Lit("f") >>
                                  ELSE << Lit("REQUEST:"), Lit("f") >>))
    /\ cpc' = "init"
    /\ UNCHANGED << cfgVars, spc, client_addr, sndVars, rcvVars >>

\* client1.download_file / client2.main: the first datagram after the request
\* is taken as the server's answer, whatever it is
download_init(m, again) ==
    /\ cpc = "init"
    /\ m \in net /\ m.to = "C"
    /\ LET init_msg == m.data
           protocol == parse_init_response(init_msg)[1]
       IN IF StartsWith(init_msg, "ERROR:")
          THEN cpc' = "done" /\ UNCHANGED rcvVars
          ELSE IF pair = "s2c2"
          THEN IF protocol = Lit("None")
               THEN cpc' = "done" /\ UNCHANGED rcvVars
               ELSE cpc' = "recv" /\ StartReceiver("c2")
          ELSE /\ cpc' = "recv"
               /\ StartReceiver(IF protocol = Lit("GBN") THEN "c1_gbn" ELSE "c1_sr")
    /\ net' = IF cpc' = "done" THEN Closed(net) ELSE Taken(m, again)
    /\ UNCHANGED << cfgVars, spc, client_addr, sndVars >>

\* client1.upload_file: choose the variant by size and send the request
upload_request ==
    /\ cpc = "start" /\ op = "UPLOAD"
    /\ IF ~is_file
       THEN cpc' = "done" /\ UNCHANGED << net, sndVars >>
       ELSE /\ net' = Send(net, Dgram("S", "C",
                        << Lit(IF upload_protocol(file_size) = "GBN"
                               THEN "UPLOAD_GBN:" ELSE "UPLOAD_SR:"), Lit("f") >>))
            /\ cpc' = "ready"
            /\ StartSender(IF upload_protocol(file_size) = "GBN"
                           THEN "c1_gbn" ELSE "c1_sr")
    /\ UNCHANGED << cfgVars, spc, client_addr, rcvVars >>

\* an upload_file that starts sending after any first datagram
upload_ready_any(m, again) ==
    /\ cpc = "ready"
    /\ m \in net /\ m.to = "C"
    /\ cpc' = "send"
    /\ net' = Taken(m, again)
    /\ UNCHANGED << cfgVars, spc, client_addr, sndVars, rcvVars >>

\* client1.upload_file: wait for READY, then run the chosen sender
upload_ready(m, again) ==
    /\ cpc = "ready"
    /\ m \in net /\ m.to = "C"
    /\ cpc' = IF m.data # READY THEN "done" ELSE "send"
    /\ net' = IF cpc' = "done" THEN Closed(net) ELSE Taken(m, again)
    /\ UNCHANGED << cfgVars, spc, client_addr, sndVars, rcvVars >>

\* socket.timeout while waiting for the server's first answer: return
client_timeout ==
    /\ cpc \in {"init", "ready"}
    /\ cpc' = "done"
    /\ net' = Closed(net)
    /\ UNCHANGED << cfgVars, spc, client_addr, sndVars, rcvVars >>

\* ------------------------------------------------------------ server main
\* A handshake request: one request starts one transfer, so the network
\* delivers a request at most once.
IsRequest(msg) ==
    \/ StartsWith(msg, "DOWNLOAD:") \/ StartsWith(msg, "REQUEST:")
    \/ StartsWith(msg, "UPLOAD_GBN:") \/ StartsWith(msg, "UPLOAD_SR:")

\* handle_download (server1) and the body of server2.main after parse_request
handle_download(n, addr) ==
    IF ~is_file
    THEN /\ net' = Send(n, Dgram(addr, "S", ERROR("no such file")))
         /\ spc' = "main"
         /\ UNCHANGED sndVars
    ELSE /\ net' = Send(n, Dgram(addr, "S",
                     init_response(server_protocol(file_size), file_size)))
         /\ spc' = "send"
         /\ StartSender(IF pair = "s1c1"
                        THEN (IF server_protocol(file_size) = "GBN" THEN "s1_gbn" ELSE "s1_sr")
                        ELSE (IF server_protocol(file_size) = "GBN" THEN "s2_gbn" ELSE "s2_sr"))

\* handle_upload_sr / handle_upload_gbn up to the receive loop
handle_upload(n, addr, kind) ==
    /\ net' = Send(n, Dgram(addr, "S", READY))
    /\ spc' = "recv"
    /\ StartReceiver(kind)

\* server1.main: one datagram read by the main loop
server1_main(m, again) ==
    /\ pair = "s1c1" /\ spc = "main"
    /\ m \in net /\ m.to = "S"
    /\ client_addr' = m.from
    /\ LET request == m.data
           n == Taken(m, again /\ ~IsRequest(request))
       IN IF StartsWith(request, "DOWNLOAD:")
          THEN handle_download(n, m.from) /\ UNCHANGED rcvVars
          ELSE IF StartsWith(request, "UPLOAD_GBN:")
          THEN handle_upload(n, m.from, "s1_gbn") /\ UNCHANGED sndVars
          ELSE IF StartsWith(request, "UPLOAD_SR:")
          THEN handle_upload(n, m.from, "s1_sr") /\ UNCHANGED sndVars
          ELSE /\ net' = Send(n, Dgram(m.from, "S", ERROR("unknown request")))
               /\ UNCHANGED << spc, sndVars, rcvVars >>
    /\ UNCHANGED << cfgVars, cpc >>

\* server2.main: one datagram read by the main loop
server2_main(m, again) ==
    /\ pair = "s2c2" /\ spc = "main"
    /\ m \in net /\ m.to = "S"
    /\ client_addr' = m.from
    /\ IF StartsWith(m.data, "REQUEST:")
       THEN handle_download(Taken(m, FALSE), m.from)
       ELSE net' = Taken(m, again) /\ UNCHANGED << spc, sndVars >>
    /\ UNCHANGED << cfgVars, cpc, rcvVars >>

\* ----------------------------------------------------------- sender engines
IsGbnSender == skind \in {"s1_gbn", "s2_gbn", "c1_gbn"}
SndHost == IF skind \in {"c1_gbn", "c1_sr"} THEN "C" ELSE "S"
SndRunning == IF SndHost = "C" THEN cpc = "send" ELSE spc = "send"
\* the address the sender writes to: server_addr, or the handler's client_addr
SndPeer == IF SndHost = "C" THEN "S" ELSE client_addr
\* the window size the engine uses (client1 writes the literal 4)
SndWindow == IF SndHost = "C" THEN UPLOAD_WINDOW ELSE WINDOW_SIZE

\* a sender loop that stops one frame early (Go-Back-N)
SndLoop_one_short == IF IsGbnSender THEN base + 1 < total ELSE acked # 0..(total - 1)

\* a sender loop that is left as soon as one acknowledgement was recorded
SndLoop_first_ack == IF IsGbnSender THEN base = 0 /\ total > 0 ELSE acked = {} /\ total > 0

\* "while base < total" / "while not all(acked)"
SndLoop == IF IsGbnSender THEN base < total ELSE acked # 0..(total - 1)
\* an inner loop that lets one frame more than the window be outstanding
SndFill_wide ==
    IF IsGbnSender
    THEN next_seq < base + SndWindow + 1 /\ next_seq < total
    ELSE Cardinality(DOMAIN window) < SndWindow + 1 /\ next_seq < total

\* the condition of the inner loop that fills the window
SndFill ==
    IF IsGbnSender
    THEN next_seq < base + SndWindow /\ next_seq < total
    ELSE Cardinality(DOMAIN window) < SndWindow /\ next_seq < total

\* base after ACK:ack_num without the test "ack_num >= base"
gbn_on_ack_unguarded(b, ack_num) == ack_num + 1

\* server2.gbn_send / client1.upload_gbn_send: base after ACK:ack_num
gbn_on_ack(b, ack_num) == IF ack_num >= b THEN ack_num + 1 ELSE b

\* server1.gbn_send: "while base < total and ack_received[base]: base += 1"
RECURSIVE gbn_slide(_, _)
gbn_slide(b, flags) == IF b < total /\ b \in flags THEN gbn_slide(b + 1, flags) ELSE b

\* server1.gbn_send: the flags after ACK:ack_num
gbn_mark(flags, ack_num) ==
    IF 0 <= ack_num /\ ack_num < total THEN flags \cup {ack_num} ELSE flags

\* sr_send / upload_sr_send: does ACK:ack_num change anything
sr_accepts(flags, ack_num) == 0 <= ack_num /\ ack_num < total /\ ack_num \notin flags

\* one pass of the inner loop: the next frame gets its send attempt; lost is
\* the outcome of "random.random() > LOSS_PROBABILITY" being false
snd_frame(lost) ==
    /\ SndRunning /\ SndLoop /\ SndFill
    /\ LET sent == Send(net, Dgram(SndPeer, SndHost, packets(next_seq)))
       IN IF skind = "s1_gbn"
          THEN net' = IF next_seq \notin ack_received /\ ~lost THEN sent ELSE net
          ELSE net' = IF lost THEN net ELSE sent
    /\ next_seq' = next_seq + 1
    /\ window' = IF IsGbnSender THEN window
                 ELSE Put(window, next_seq, packets(next_seq))
    /\ UNCHANGED << cfgVars, cpc, spc, client_addr, skind, total, base, ack_received,
                    acked, ends_sent, rcvVars >>

\* recvfrom returned a datagram while the sender waits for an ACK
snd_recv(m, again) ==
    /\ SndRunning /\ SndLoop /\ ~SndFill
    /\ m \in net /\ m.to = SndHost
    /\ net' = Taken(m, again)
    /\ IF ~IsACK(m.data)
       THEN UNCHANGED << base, ack_received, acked, window >>
       ELSE LET ack_num == AckNum(m.data)
            IN CASE skind = "s1_gbn" ->
                      /\ ack_received' = gbn_mark(ack_received, ack_num)
                      /\ base' = gbn_slide(base, ack_received')
                      /\ UNCHANGED << acked, window >>
                 [] skind \in {"s2_gbn", "c1_gbn"} ->
                      /\ base' = gbn_on_ack(base, ack_num)
                      /\ UNCHANGED << ack_received, acked, window >>
                 [] OTHER ->
                      /\ acked' = IF sr_accepts(acked, ack_num)
                                  THEN acked \cup {ack_num} ELSE acked
                      /\ window' = IF sr_accepts(acked, ack_num) /\ ack_num \in DOMAIN window
                                   THEN Del(window, ack_num) ELSE window
                      /\ UNCHANGED << base, ack_received >>
    /\ UNCHANGED << cfgVars, cpc, spc, client_addr, skind, total, next_seq, ends_sent, rcvVars >>

\* On the reliable channel a datagram in flight is delivered and answered
\* well within the timeout (2 s): recvfrom times out only when nothing is in
\* flight and the sender is not in the middle of filling its window.
Silent ==
    /\ net = {}
    /\ SndRunning => (SndLoop /\ ~SndFill)

\* a timeout branch that resends the window whatever was acknowledged
Retransmitted_all ==
    CASE skind = "s1_gbn" -> base..(Min(base + WINDOW_SIZE, total) - 1)
      [] skind \in {"s1_sr", "s2_sr", "c1_sr"} -> (DOMAIN window) \cup acked
      [] OTHER -> {}

\* a timeout branch that gives only the newest frame of the window an attempt
Retransmitted_newest ==
    IF IsGbnSender \/ DOMAIN window = {} THEN {}
    ELSE {CHOOSE i \in DOMAIN window : \A j \in DOMAIN window : j <= i}

\* the seqs the "except socket.timeout" branch gives a send attempt
Retransmitted ==
    CASE skind = "s1_gbn" ->
           {i \in base..(Min(base + WINDOW_SIZE, total) - 1) : i \notin ack_received}
      [] skind \in {"s1_sr", "s2_sr"} -> {seq \in DOMAIN window : seq \notin acked}
      [] skind = "c1_sr" -> DOMAIN window
      [] OTHER -> {}

\* recvfrom timed out; lost are the retransmissions the loss simulation drops
\* (client1.upload_sr_send retransmits without it)
snd_timeout(lost) ==
    /\ SndRunning /\ SndLoop /\ ~SndFill
    /\ channel = "reliable" => Silent
    /\ lost \subseteq Retransmitted
    /\ skind = "c1_sr" => lost = {}
    /\ \E order \in {Ascending(Retransmitted \ lost)} :
          net' = SendSeq(net, [j \in 1..Len(order) |->
                                 Dgram(SndPeer, SndHost, packets(order[j]))])
    /\ next_seq' = IF IsGbnSender THEN base ELSE next_seq
    /\ UNCHANGED << cfgVars, cpc, spc, client_addr, skind, total, base, ack_received,
                    acked, window, ends_sent, rcvVars >>

\* the loop is over: END is sent and the routine returns
snd_end ==
    /\ SndRunning /\ ~SndLoop
    /\ ends_sent' = ends_sent + 1
    /\ IF SndHost = "C"
       THEN /\ net' = Closed(Send(net, Dgram(SndPeer, SndHost, END)))
            /\ cpc' = "done" /\ UNCHANGED spc
       ELSE /\ net' = Send(net, Dgram(SndPeer, SndHost, END))
            /\ spc' = "main" /\ UNCHANGED cpc
    /\ UNCHANGED << cfgVars, client_addr, skind, total, base, next_seq, ack_received,
                    acked, window, rcvVars >>

\* --------------------------------------------------------- receiver engines
IsGbnReceiver == rkind \in {"c1_gbn", "c2", "s1_gbn"}
RcvHost == IF rkind \in {"s1_gbn", "s1_sr"} THEN "S" ELSE "C"
RcvRunning == IF RcvHost = "C" THEN cpc = "recv" ELSE spc = "recv"
\* where the ACKs go: server_addr, or the handler's client_addr
AckDest == IF RcvHost = "C" THEN "S" ELSE client_addr

\* the bytes written after the loop
Output ==
    IF rkind = "s1_gbn" THEN JoinList(received_data)
    ELSE reassemble(received_packets)

\* the code after the receive loop: reassemble, write the file, return;
\* n are the datagrams in flight at that moment
Leave(how, n) ==
    /\ rexit' = how
    /\ sink' = File(Output)
    /\ IF RcvHost = "C"
       THEN net' = Closed(n) /\ cpc' = "done" /\ UNCHANGED spc
       ELSE net' = n /\ spc' = "main" /\ UNCHANGED cpc

\* a GBN receiver that also accepts a frame ahead of the expected one
gbn_accepts_ahead(seq) == seq >= expected_seq

\* GBN receivers: accept exactly the expected frame
gbn_accepts(seq) == seq = expected_seq
\* SR receivers: buffer a frame not yet buffered
sr_buffers(seq) == seq \notin DOMAIN received_packets

\* one datagram read by the receive loop
rcv_datagram(m, again) ==
    /\ RcvRunning
    /\ m \in net /\ m.to = RcvHost
    /\ \E p \in {parse_packet(m.data)} :
       LET seq == p[1]
           content == p[3]
       IN IF IsEND(m.data)
          THEN /\ Leave("END", Taken(m, again))
               /\ UNCHANGED << rkind, expected_seq, received_packets, received_data,
                               expected_total, idle >>
          ELSE IF seq = None
          THEN /\ net' = Taken(m, again)
               /\ idle' = 0
               /\ UNCHANGED << cpc, spc, rkind, expected_seq, received_packets,
                               received_data, expected_total, rexit, sink >>
          ELSE /\ expected_total' = IF rkind # "s1_gbn" /\ expected_total = None
                                    THEN p[2] ELSE expected_total
               /\ idle' = 0
               /\ IF IsGbnReceiver
                  THEN /\ expected_seq' = IF gbn_accepts(seq) THEN expected_seq + 1
                                          ELSE expected_seq
                       /\ received_packets' =
                             IF gbn_accepts(seq) /\ rkind # "s1_gbn"
                             THEN Put(received_packets, seq, content)
                             ELSE received_packets
                       /\ received_data' =
                             IF gbn_accepts(seq) /\ rkind = "s1_gbn"
                             THEN Append(received_data, content)
                             ELSE received_data
                       /\ net' = Send(Taken(m, again),
                                      Dgram(AckDest, RcvHost, ACK(expected_seq' - 1)))
                  ELSE /\ received_packets' =
                             IF sr_buffers(seq) THEN Put(received_packets, seq, content)
                             ELSE received_packets
                       /\ net' = Send(Taken(m, again),
                                      Dgram(AckDest, RcvHost, ACK(seq)))
                       /\ UNCHANGED << expected_seq, received_data >>
               /\ UNCHANGED << cpc, spc, rkind, rexit, sink >>
    /\ UNCHANGED << cfgVars, client_addr, sndVars >>


\* client2.main: recvfrom timed out; after more than max_idle_time seconds
\* without a datagram the loop is left
rcv_timeout ==
    /\ RcvRunning /\ rkind = "c2"
    /\ channel = "reliable" => Silent
    /\ idle' = idle + 1
    /\ IF idle' * CLIENT_TIMEOUT > max_idle_time
       THEN Leave("idle", net)
       ELSE UNCHANGED << net, cpc, spc, rexit, sink >>
    /\ UNCHANGED << cfgVars, client_addr, sndVars, rkind, expected_seq,
                    received_packets, received_data, expected_total >>

\* "except Exception as e: break": recvfrom or sendto raised
rcv_exception ==
    /\ RcvRunning
    /\ Leave("exception", net)
    /\ UNCHANGED << cfgVars, client_addr, sndVars, rkind, expected_seq,
                    received_packets, received_data, expected_total, idle >>

\* ---------------------------------------------------------------- network
\* a datagram in flight is lost
Lose(m) ==
    /\ channel = "lossy"
    /\ m \in net
    /\ net' = net \ {m}
    /\ UNCHANGED << cfgVars, cpc, spc, client_addr, sndVars, rcvVars >>

\* ---------------------------------------------------------------- second peer
\* The blob of a second client "P" that uploads to the same server socket:
\* chunks of bytes valued 0, which no blob of "C" contains.
PeerChunk == << Run(0, PACKET_SIZE) >>
PeerTotal == 1

\* client1.upload_sr_send / upload_gbn_send run by "P": one of its frames is
\* sent to the server's socket
peer_frame(seq) ==
    /\ seq \in 0..(PeerTotal - 1)
    /\ net' = Send(net, Dgram("S", "P", make_packet(seq, PeerTotal, PeerChunk)))
    /\ UNCHANGED << cfgVars, cpc, spc, client_addr, sndVars, rcvVars >>

\* "P" reads a datagram addressed to it
peer_recv(m) ==
    /\ m \in net /\ m.to = "P"
    /\ net' = net \ {m}
    /\ UNCHANGED << cfgVars, cpc, spc, client_addr, sndVars, rcvVars >>

\* ------------------------------------------------------------------- Spec
\* the steps of the two programs
Programs ==
    \/ download_request
    \/ upload_request
    \/ client_timeout
    \/ snd_end
    \/ rcv_timeout
    \/ \E lost \in BOOLEAN : snd_frame(lost)
    \/ \E lost \in SUBSET Retransmitted : snd_timeout(lost)
    \/ \E m \in net, again \in BOOLEAN :
          \/ download_init(m, again)
          \/ upload_ready(m, again)
          \/ server1_main(m, again)
          \/ server2_main(m, again)
          \/ snd_recv(m, again)
          \/ rcv_datagram(m, again)

\* One transfer between "C" and "S" over a network that loses, duplicates
\* and reorders datagrams; a socket call of the receiver may raise.
Next ==
    \/ Programs
    \/ rcv_exception
    \/ \E m \in net : Lose(m)

Spec == Init /\ [][Next]_vars

\* The same with a second peer "P" writing to the server's socket.
InitPeers ==
    /\ \E t \in TransfersPeers : pair = t[1] /\ op = t[2] /\ file_size = t[3]
    /\ is_file = TRUE
    /\ channel = "lossy"
    /\ Start

NextPeers ==
    \/ Programs
    \/ rcv_exception
    \/ \E m \in net : Lose(m)
    \/ \E seq \in 0..(PeerTotal - 1) : peer_frame(seq)
    \/ \E m \in net : peer_recv(m)

SpecPeers == InitPeers /\ [][NextPeers]_vars

\* Termination over the lossy network: the programs keep running, and a
\* datagram that can be delivered again and again is delivered.
InitFair ==
    /\ \E t \in TransfersFair : pair = t[1] /\ op = t[2] /\ file_size = t[3]
    /\ is_file = TRUE
    /\ channel = "lossy"
    /\ Start

NextLossy ==
    \/ Programs
    \/ \E m \in net : Lose(m)

FairPrograms ==
    /\ WF_vars(\E lost \in BOOLEAN : snd_frame(lost))
    /\ WF_vars(\E lost \in SUBSET Retransmitted : snd_timeout(lost))
    /\ WF_vars(snd_end)
    /\ SF_vars(\E m \in net, again \in BOOLEAN : snd_recv(m, again))
    /\ SF_vars(\E m \in net, again \in BOOLEAN : rcv_datagram(m, again))

SpecLossy == InitFair /\ [][NextLossy]_vars /\ FairPrograms

\* Termination when only the sender's loss simulation drops frames: the
\* network delivers every datagram, and no frame is dropped at every attempt.
InitSimLoss ==
    /\ \E t \in TransfersFair : pair = t[1] /\ op = t[2] /\ file_size = t[3]
    /\ is_file = TRUE
    /\ channel = "reliable"
    /\ Start

NextSimLoss == Programs

FairSimLoss ==
    /\ FairPrograms
    /\ SF_vars(snd_frame(FALSE))
    /\ SF_vars(snd_timeout({}))

SpecSimLoss == InitSimLoss /\ [][NextSimLoss]_vars /\ FairSimLoss

\* ---------------------------------------------------------------- claims
\* the chunk the receiver holds for sequence number i
Stored(i) == IF rkind = "s1_gbn" THEN received_data[i + 1] ELSE received_packets[i]
Holds(i) ==
    IF rkind = "s1_gbn" THEN i + 1 \in DOMAIN received_data
    ELSE i \in DOMAIN received_packets
\* every chunk 0..total-1 of B is held
Complete == \A i \in DOMAIN Segments[file_size] : Holds(i)
\* the sequence number of a frame in flight to the receiver, None for others
FrameSeq(m) == IF m.to = RcvHost THEN parse_packet(m.data)[1] ELSE None

C4_GbnReceiver ==
    /\ [](IsGbnReceiver =>
            \A i \in 0..(expected_seq - 1) :
                /\ i \in DOMAIN Segments[file_size]
                /\ Holds(i)
                /\ Stored(i) = Segments[file_size][i])
    /\ [][(IsGbnReceiver /\ expected_seq' # expected_seq) =>
            /\ expected_seq' = expected_seq + 1
            /\ \E m \in net : FrameSeq(m) = expected_seq]_vars

\* a GBN receiver past the first window with a stale frame still in flight
C4_Witness ==
    /\ IsGbnReceiver /\ RcvRunning
    /\ expected_seq > WINDOW_SIZE
    /\ \E m \in net : FrameSeq(m) # None /\ FrameSeq(m) < expected_seq

\* C5: no receiver writes its output from an incomplete map: whenever a file
\* has been written, every sequence number 0..total-1 was held (on END, on
\* the idle timeout and on an exception alike).
C5_NoPartialOutput == sink # NoFile => Complete

\* C6: an idle timeout is not a success: after the receive loop is left on
\* the idle timeout no file is delivered to the sink.
C6_IdleDeliversNothing == rexit = "idle" => sink = NoFile

\* C8: wherever a variant is selected, a blob larger than the threshold is
\* sent with Go-Back-N and any other blob with Selective Repeat.
C8_ThresholdSelection ==
    skind # "none" => (IsGbnSender <=> file_size > THRESHOLD)

\* C9: within one transfer the sender and the receiver run the same variant.
C9_SameVariant ==
    (skind # "none" /\ rkind # "none") => (IsGbnSender <=> IsGbnReceiver)

\* the receiver has already accepted the frame numbered seq
Accepted(seq) ==
    IF IsGbnReceiver THEN seq < expected_seq ELSE seq \in DOMAIN received_packets
\* the sender has nothing left to learn from ACK:k (true once it processed it)
Processed(k) ==
    CASE skind = "s1_gbn" -> k \in ack_received \/ ~(0 <= k /\ k < total)
      [] skind \in {"s2_gbn", "c1_gbn"} -> k < base
      [] OTHER -> k \in acked \/ ~(0 <= k /\ k < total)
\* the numbers of the acknowledgements in a set of datagrams
AckNums(n) == {AckNum(d.data) : d \in {x \in n : x.from = RcvHost /\ IsACK(x.data)}}

\* C7: re-delivery is idempotent.  A frame the receiver has accepted stays
\* accepted; reading it again leaves the receiver's map, list, expected_seq
\* and expected_total unchanged, and a GBN receiver answers with an ACK not
\* lower than any it sent before (all of them were below expected_seq).  An
\* ACK the sender has processed stays processed; reading it again leaves
\* base, the ACK flags, the window and next_seq unchanged.
C7_Idempotent ==
    [][/\ rkind' = rkind =>
            /\ expected_seq' >= expected_seq
            /\ DOMAIN received_packets \subseteq DOMAIN received_packets'
       /\ skind' = skind =>
            /\ base' >= base
            /\ ack_received \subseteq ack_received'
            /\ acked \subseteq acked'
       /\ \A m \in net :
            /\ (/\ << received_packets, received_data >>' #
                      << received_packets, received_data >>
                /\ FrameSeq(m) # None
                /\ \E again \in BOOLEAN : rcv_datagram(m, again)) =>
                  Accepted(FrameSeq(m))'
            /\ (/\ UNCHANGED sndVars
                /\ FrameSeq(m) # None
                /\ Accepted(FrameSeq(m))
                /\ \E again \in BOOLEAN : rcv_datagram(m, again)) =>
                  /\ UNCHANGED << received_packets, received_data,
                                  expected_seq, expected_total >>
                  /\ IsGbnReceiver =>
                        \A a \in AckNums(net' \ net) : a >= expected_seq - 1
            /\ (/\ UNCHANGED << rcvVars, next_seq >>
                /\ m.to = SndHost /\ IsACK(m.data)
                /\ \E again \in BOOLEAN : snd_recv(m, again)) =>
                  /\ Processed(AckNum(m.data))'
                  /\ Processed(AckNum(m.data)) =>
                        UNCHANGED << base, ack_received, acked, window, next_seq >>
      ]_vars

\* both engines run, an accepted frame is about to be read again by the
\* receiver and a processed ACK again by the sender
C7_Witness ==
    /\ RcvRunning /\ SndRunning /\ SndLoop /\ ~SndFill
    /\ \E m \in net : FrameSeq(m) # None /\ Accepted(FrameSeq(m))
    /\ \E m \in net : m.to = SndHost /\ IsACK(m.data) /\ Processed(AckNum(m.data))
    /\ base > 0

\* the transfer is complete at the receiver
Done == rexit = "END" /\ sink = File(file_data)

\* C2: when frames are lost only by the sender's loss simulation, and no
\* frame at every attempt, and ACK and END are delivered, every transfer whose
\* two engines run eventually ends with END received and the output equal
\* to B.
C2_SimLossCompletes == (SndRunning /\ RcvRunning) ~> Done

\* C3: over a network that may lose any datagram, every transfer is eventually
\* completed at the receiver; in particular, once the sender has finished and
\* sent END, the receiver that is still in its loop eventually receives END.
C3_EndReachesReceiver == (ends_sent > 0 /\ RcvRunning) ~> rexit = "END"

\* C10: a frame of another peer is never buffered into the upload session of
\* the peer the server serves: every chunk the session holds is a chunk of
\* the blob that peer sends, under its own sequence number.
C10_SessionIsolation ==
    rkind \in {"s1_sr", "s1_gbn"} =>
        /\ \A i \in DOMAIN received_packets :
              /\ i \in DOMAIN Segments[file_size]
              /\ received_packets[i] = Segments[file_size][i]
        /\ \A i \in DOMAIN received_data :
              /\ i - 1 \in DOMAIN Segments[file_size]
              /\ received_data[i] = Segments[file_size][i - 1]


\* Transfers of blobs of chosen sizes over the lossy network.
InitSegments ==
    /\ \E t \in TransfersSegments : pair = t[1] /\ op = t[2] /\ file_size = t[3]
    /\ is_file = TRUE
    /\ channel = "lossy"
    /\ Start

NextSegments ==
    \/ Programs
    \/ \E m \in net : Lose(m)

SpecSegments == InitSegments /\ [][NextSegments]_vars

\* Go-Back-N transfers over the lossy network, where what is sent again and
\* again is also delivered: the frame the receiver expects gets send
\* attempts that put it in flight, and it and the receiver's latest
\* acknowledgement are read when they are in flight again and again.
TransfersGbn ==
    {<< "s1c1", "DOWNLOAD", 20 * 1024 >>, << "s2c2", "DOWNLOAD", 20 * 1024 >>,
     << "s1c1", "UPLOAD", 20 * 1024 + 1 >>}

InitGbn ==
    /\ \E t \in TransfersGbn : pair = t[1] /\ op = t[2] /\ file_size = t[3]
    /\ is_file = TRUE
    /\ channel = "lossy"
    /\ Start

\* the pass of the fill loop reaches the loss simulation (server1.gbn_send
\* skips a frame whose flag is set)
Attempted == skind = "s1_gbn" => next_seq \notin ack_received

\* the loss simulation lets frames through again and again, and in
\* particular the frame the receiver expects
FairGbn ==
    /\ WF_vars(snd_end)
    /\ WF_vars(\E lost \in SUBSET Retransmitted : snd_timeout(lost))
    /\ WF_vars(\E lost \in BOOLEAN : snd_frame(lost))
    /\ SF_vars(Attempted /\ snd_frame(FALSE))
    /\ SF_vars(Attempted /\ next_seq = expected_seq /\ snd_frame(FALSE))

SpecGbn == InitGbn /\ [][NextLossy]_vars /\ FairGbn

\* ------------------------------------------------- second peer's handshakes
\* "P" also speaks to the server's socket: handshake requests, a datagram
\* that is no request, and acknowledgements.  "P" waits for the answer to
\* one datagram before it sends the next.
PeerAckMax == 1
\* "P" makes requests until the server has completed MaxEnds downloads
MaxEnds == 1

PeerQuiet == \A x \in net : x.from # "P" /\ x.to # "P"

\* the requests "P" makes: a download while "C" downloads, an upload while
\* "C" uploads, or a datagram of no handshake shape
PeerShapes ==
    {<< Lit("HELLO") >>} \cup
    (IF pair = "s2c2" THEN {<< Lit("REQUEST:"), Lit("f") >>}
     ELSE IF op = "DOWNLOAD" THEN {<< Lit("DOWNLOAD:"), Lit("f") >>}
     ELSE {<< Lit("UPLOAD_SR:"), Lit("g") >>})

\* a client at another address sends its first datagram to the server
peer_request(request) ==
    /\ PeerQuiet
    /\ ends_sent < MaxEnds
    /\ request \in PeerShapes
    /\ net' = Send(net, Dgram("S", "P", request))
    /\ UNCHANGED << cfgVars, cpc, spc, client_addr, sndVars, rcvVars >>

\* a client at another address sends ACK:k to the server
peer_ack(k) ==
    /\ PeerQuiet
    /\ k \in 0..PeerAckMax
    /\ net' = Send(net, Dgram("S", "P", ACK(k)))
    /\ UNCHANGED << cfgVars, cpc, spc, client_addr, sndVars, rcvVars >>

\* The frames "P" uploads: make_packet(seq, tot, payload) for every seq up
\* to MaxPeerSeq, every total up to MaxPeerTotal and these payloads, some of
\* which contain the words of a frame header.
MaxPeerSeq == 1
MaxPeerTotal == 1
PeerPayloads ==
    {<< >>,
     << Run(0, 2), Lit("|DATA:"), Run(0, 3) >>,
     << Lit("SEQ:"), Num(7), Lit("|"), Lit("TOTAL:"), Num(9), Lit("|DATA:"), Run(0, 4) >>,
     << Lit("TOTAL:"), Num(5), Lit("SEQ:") >>}
\* datagrams that are no frame: no delimiter, or a header without SEQ or
\* without TOTAL followed by an integer
PeerGarbage ==
    {<< Lit("SEQ:"), Num(1), Lit("|"), Lit("TOTAL:"), Num(2), Run(0, 8) >>,
     << Lit("TOTAL:"), Num(2), Lit("|DATA:"), Run(0, 8) >>,
     << Lit("SEQ:"), Num(1), Lit("|DATA:"), Lit("TOTAL:"), Num(2) >>,
     << Lit("|DATA:"), Lit("SEQ:"), Num(1), Lit("|"), Lit("TOTAL:"), Num(2) >>}

\* "P" uploads a frame while "C" uploads
peer_packet(seq, tot, payload) ==
    /\ PeerQuiet
    /\ op = "UPLOAD"
    /\ seq \in 0..MaxPeerSeq /\ tot \in 0..MaxPeerTotal /\ payload \in PeerPayloads
    /\ net' = Send(net, Dgram("S", "P", make_packet(seq, tot, payload)))
    /\ UNCHANGED << cfgVars, cpc, spc, client_addr, sndVars, rcvVars >>

\* "P" sends a datagram that is no frame while "C" uploads
peer_garbage(data) ==
    /\ PeerQuiet
    /\ op = "UPLOAD"
    /\ data \in PeerGarbage
    /\ net' = Send(net, Dgram("S", "P", data))
    /\ UNCHANGED << cfgVars, cpc, spc, client_addr, sndVars, rcvVars >>

\* a datagram of no known shape reaches the client from another address
peer_stray ==
    /\ PeerQuiet
    /\ cpc # "done"
    /\ net' = Send(net, Dgram("C", "P", << Lit("HELLO") >>))
    /\ UNCHANGED << cfgVars, cpc, spc, client_addr, sndVars, rcvVars >>

TransfersRequests ==
    {<< "s1c1", "DOWNLOAD", 500 >>, << "s2c2", "DOWNLOAD", 5000 >>,
     << "s1c1", "UPLOAD", 500 >>}

\* One transfer of "C" and the datagrams of "P" on a channel that delivers
\* every datagram once.
InitRequests ==
    /\ \E t \in TransfersRequests : pair = t[1] /\ op = t[2] /\ file_size = t[3]
    /\ is_file \in BOOLEAN
    /\ channel = "reliable"
    /\ Start

NextRequests ==
    \/ Programs
    \/ \E request \in PeerShapes : peer_request(request)
    \/ \E k \in 0..PeerAckMax : peer_ack(k)
    \/ peer_stray
    \/ \E seq \in 0..MaxPeerSeq, tot \in 0..MaxPeerTotal, payload \in PeerPayloads :
          peer_packet(seq, tot, payload)
    \/ \E data \in PeerGarbage : peer_garbage(data)
    \/ \E m \in net : peer_recv(m)

SpecRequests == InitRequests /\ [][NextRequests]_vars


\* C11: a handshake request that reaches the server from an address other
\* than the peer of the transfer in progress is answered (a datagram for
\* that address is in flight after the step that read it), and an ACK from
\* such an address leaves the sender's state as it was.
C11_ForeignDatagramsRouted ==
    [][\A m \in net \ net' :
          (m.to = "S" /\ spc # "main" /\ m.from # client_addr) =>
              /\ IsRequest(m.data) => \E x \in net' : x.to = m.from
              /\ IsACK(m.data) => UNCHANGED sndVars]_vars


\* C12: once the client has gone (it returned and closed its socket, so the
\* session's peer is silent from then on), the server eventually leaves the
\* session it runs and is back in the main loop that accepts requests.
C12_SilentPeerSessionRemoved == (spc # "main" /\ cpc = "done") ~> spc = "main"


\* a datagram the main loop must refuse: no handshake shape, or a download
\* of a file that does not exist
Refused(request) ==
    \/ ~IsRequest(request)
    \/ (StartsWith(request, "DOWNLOAD:") \/ StartsWith(request, "REQUEST:")) /\ ~is_file

\* C13: when the main loop reads a datagram that is no recognised request,
\* or a request for a missing file, the server stays in its main loop, an
\* ERROR reply for the sender is in flight afterwards (unless the sender has
\* closed its socket), and the step sends nothing but ERROR.
C13_RefusedWithError ==
    [][\A m \in net \ net' :
          (m.to = "S" /\ spc = "main" /\ Refused(m.data)) =>
              /\ spc' = "main"
              /\ \A x \in net' \ net : StartsWith(x.data, "ERROR:")
              /\ \/ m.from = "C" /\ cpc = "done"
                 \/ \E x \in net' : x.to = m.from /\ StartsWith(x.data, "ERROR:")]_vars


\* a data frame or END written by the client
ClientData(x) ==
    x.from = "C" /\ (parse_packet(x.data)[1] # None \/ IsEND(x.data))

\* C14: in an upload the client hands a data frame or END to the network
\* only while it runs its sender, which it enters only by reading READY as
\* the first datagram after its request; any other first datagram, or none
\* in time, makes it return, after which it sends nothing.  READY is sent
\* only by the step that puts the server into a receive routine.
C14_ReadyBeforeFrames ==
    [][/\ (\E x \in net' \ net : ClientData(x)) => cpc = "send"
       /\ (cpc # "send" /\ cpc' = "send") =>
             cpc = "ready" /\ \E m \in net \ net' : m.to = "C" /\ m.data = READY
       /\ (cpc = "ready" /\ \E m \in net \ net' : m.to = "C" /\ m.data # READY) =>
             cpc' = "done"
       /\ (cpc = "ready" /\ cpc' # "ready") => cpc' \in {"send", "done"}
       /\ cpc = "done" => cpc' = "done" /\ \A x \in net' \ net : x.from # "C"
       /\ (\E x \in net' \ net : x.data = READY) =>
             spc = "main" /\ spc' = "recv" /\ rkind' \in {"s1_gbn", "s1_sr"}]_vars

\* an upload under way: the client runs its sender and a frame is in flight
C14_Witness ==
    /\ op = "UPLOAD" /\ cpc = "send"
    /\ \E x \in net : ClientData(x)


\* C15: every frame make_packet(seq, tot, payload) in flight decodes to
\* exactly <<seq, tot, payload>>, also when the payload contains '|DATA:',
\* 'SEQ:' or 'TOTAL:'; a datagram without the delimiter, or whose header
\* lacks SEQ or TOTAL with an integer, decodes to failure.
C15_CodecRoundTrip ==
    \A m \in net :
        /\ \A seq \in 0..MaxPeerSeq, tot \in 0..MaxPeerTotal, payload \in PeerPayloads :
              m.data = make_packet(seq, tot, payload) =>
                 parse_packet(m.data) = << seq, tot, payload >>
        /\ \A i \in 0..(total - 1) :
              m.data = packets(i) =>
                 parse_packet(m.data) = << i, total, Segments[file_size][i] >>
        /\ m.data \in PeerGarbage => parse_packet(m.data) = << None, None, None >>

\* the receive loop has decoded and stored a payload that holds a delimiter
C15_Witness ==
    \E seq \in DOMAIN received_packets :
        \E j \in 1..Len(received_packets[seq]) : received_packets[seq][j].k = "|DATA:"


\* a data frame in flight, as <<seq, total, number of payload bytes>>
FrameShape(m) ==
    CHOOSE r \in {IF p[1] = None THEN p ELSE << p[1], p[2], BLen(p[3]) >> :
                    p \in {parse_packet(m.data)}} : TRUE

\* the frames of the 25000-byte blob in flight say TOTAL:25 and carry 1024
\* bytes when their seq is below 24 and last bytes when it is 24
Frames25000(last) ==
    /\ total = 25
    /\ IsGbnSender
    /\ \A m \in net :
          FrameShape(m)[1] # None =>
             /\ FrameShape(m)[1] \in 0..24
             /\ FrameShape(m)[2] = 25
             /\ FrameShape(m)[3] = IF FrameShape(m)[1] < 24 THEN 1024 ELSE last

\* C16: a blob of 25000 bytes is sent by a Go-Back-N sender as 25 frames, 24
\* of 1024 bytes followed by one of 424 bytes (25000 - 24 * 1024).
C16_Segments25000 == (file_size = 25000 /\ skind # "none") => Frames25000(424)

\* C16 as stated: the last of the 25 frames carries 808 bytes.
C16_LastChunk808 == (file_size = 25000 /\ skind # "none") => Frames25000(808)

\* the last frame of the 25000-byte blob is in flight
C16_Witness ==
    /\ file_size = 25000
    /\ \E m \in net : FrameShape(m)[1] = 24

\* the payloads of the frames built from each blob, joined in order of seq
Rejoined ==
    [sz \in Sizes |->
        JoinList([i \in 1..Cardinality(DOMAIN PacketLists[sz]) |->
                    parse_packet(PacketLists[sz][i - 1])[3]])]

\* C17: a sender holds total = ceil(size / PACKET_SIZE) frames for a
\* non-empty blob and one frame for the empty blob, never none; the frames
\* are seq 0..total-1 and their payloads joined in order are the blob.
C17_ChunkCount ==
    skind # "none" =>
        /\ total = IF file_size = 0 THEN 1
                   ELSE (file_size + PACKET_SIZE - 1) \div PACKET_SIZE
        /\ total >= 1
        /\ DOMAIN PacketLists[file_size] = 0..(total - 1)
        /\ \A i \in 0..(total - 1) : parse_packet(packets(i))[1] = i
        /\ Rejoined[file_size] = file_data


\* the step is a Go-Back-N sender reading the acknowledgement m
GbnAckRead(m) ==
    /\ IsGbnSender /\ IsACK(m.data)
    /\ \E again \in BOOLEAN : snd_recv(m, again)

\* C18: a Go-Back-N sender that reads ACK:k with k >= base has base = k + 1
\* after that step, whether or not the acknowledgements below k were read;
\* reading ACK:k with k < base changes nothing in the sender.
C18_CumulativeAck ==
    [][\A m \in net :
          GbnAckRead(m) =>
              IF AckNum(m.data) >= base
              THEN base' = AckNum(m.data) + 1
              ELSE UNCHANGED sndVars]_vars


\* sendto is called with frame seq
Attempt(seq) ==
    \/ next_seq = seq /\ Attempted /\ snd_frame(FALSE)
    \/ \E lost \in SUBSET (Retransmitted \ {seq}) :
          seq \in Retransmitted /\ snd_timeout(lost)
\* the receive loop reads frame seq
FrameRead(seq) ==
    \E m \in net, again \in BOOLEAN :
        parse_packet(m.data)[1] = seq /\ rcv_datagram(m, again)
\* the receive loop reads a frame and answers it
AnyFrameRead ==
    \E m \in net, again \in BOOLEAN :
        parse_packet(m.data)[1] # None /\ rcv_datagram(m, again)
\* the sender reads the receiver's latest acknowledgement
LatestAckRead ==
    \E m \in net, again \in BOOLEAN :
        m.data = ACK(expected_seq - 1) /\ snd_recv(m, again)

\* Frames and acknowledgements sent infinitely often are delivered: the
\* expected frame, some frame, and the latest acknowledgement.
ChannelFair ==
    /\ []<><<Attempt(expected_seq)>>_vars => []<><<FrameRead(expected_seq)>>_vars
    /\ []<><<\E i \in 0..(total - 1) : Attempt(i)>>_vars => []<><<AnyFrameRead>>_vars
    /\ []<><<AnyFrameRead>>_vars => []<><<LatestAckRead>>_vars

\* C19: over such a channel, once a Go-Back-N sender and a Go-Back-N
\* receiver run a transfer, the sender eventually has base = total and has
\* sent END.
C19_GbnSenderFinishes ==
    ChannelFair =>
        ((IsGbnSender /\ SndRunning /\ IsGbnReceiver /\ RcvRunning)
            ~> (base = total /\ ends_sent > 0))

\* ------------------------------------------- Selective Repeat over fair loss
IsSrSender == skind \in {"s1_sr", "s2_sr", "c1_sr"}
IsSrReceiver == rkind \in {"c1_sr", "s1_sr"}
\* the lowest seq of the sender's window (the window holds the unacked frames)
Oldest ==
    IF DOMAIN window = {} THEN None
    ELSE CHOOSE i \in DOMAIN window : \A j \in DOMAIN window : i <= j

\* the loops go on: a pass of the fill loop, a recvfrom that returns a
\* datagram in flight, a recvfrom that times out, the END after the loop
FairSr ==
    /\ WF_vars(snd_end)
    /\ WF_vars(\E lost \in BOOLEAN : snd_frame(lost))
    /\ WF_vars(\E lost \in SUBSET Retransmitted : snd_timeout(lost))
    /\ WF_vars(\E m \in net, again \in BOOLEAN : snd_recv(m, again))
    /\ WF_vars(\E m \in net, again \in BOOLEAN : rcv_datagram(m, again))

SpecSr == InitFair /\ [][NextLossy]_vars /\ FairSr

\* the sender waits for an ACK and its timeout branch gives the oldest frame
\* of the window a send attempt
OldestRetransmitted ==
    SndRunning /\ SndLoop /\ ~SndFill /\ Oldest # None /\ Oldest \in Retransmitted
\* the receive loop reads the oldest frame of the window / the sender reads
\* its acknowledgement
OldestFrameRead == Oldest # None /\ FrameRead(Oldest)
OldestAckRead ==
    /\ Oldest # None
    /\ \E m \in net, again \in BOOLEAN : m.data = ACK(Oldest) /\ snd_recv(m, again)

\* A frame that the sender's timeouts send again and again is delivered
\* again and again, and so is its acknowledgement (stated for the oldest
\* frame of the window).
ChannelFairSr ==
    /\ []<>OldestRetransmitted => []<><<OldestFrameRead>>_vars
    /\ []<><<OldestFrameRead>>_vars => []<><<OldestAckRead>>_vars

\* C20: over such a channel, once a Selective-Repeat sender and a
\* Selective-Repeat receiver run a transfer, the sender eventually has every
\* seq of 0..total-1 acked and has sent END.
C20_SrSenderFinishes ==
    ChannelFairSr =>
        ((IsSrSender /\ SndRunning /\ IsSrReceiver /\ RcvRunning)
            ~> (acked = 0..(total - 1) /\ ends_sent > 0))
\* an SR transfer that lost a datagram on its way and whose sender finished
C20_Witness ==
    /\ IsSrSender /\ IsSrReceiver
    /\ acked = 0..(total - 1) /\ total > WINDOW_SIZE /\ ends_sent > 0

\* C21: a Go-Back-N receiver that has processed a decodable frame, accepted
\* or discarded, has sent one ACK and nothing else; its number is
\* expected_seq - 1 after processing, which is -1 exactly while chunk 0 is not
\* held; every chunk 0..k is held when ACK:k with k >= 0 is sent, and no ACK
\* of the receiver in flight carries a higher number.
C21_GbnCumulativeAck ==
    [][\A m \in net :
          (/\ IsGbnReceiver
           /\ FrameSeq(m) # None /\ ~IsEND(m.data)
           /\ \E again \in BOOLEAN : rcv_datagram(m, again)) =>
              LET k == expected_seq' - 1
              IN /\ net' \in {Send(Taken(m, again), Dgram(AckDest, RcvHost, ACK(k))) :
                                again \in BOOLEAN}
                 /\ Cardinality(net' \ net) <= 1
                 /\ \A y \in net' \ net :
                       /\ y.to = AckDest /\ y.from = RcvHost
                       /\ IsACK(y.data) /\ AckNum(y.data) = k
                 /\ (k = -1) <=> ~Holds(0)'
                 /\ \A i \in 0..k : Holds(i)'
                 /\ \A a \in AckNums(net \cup net') : a <= k]_vars
\* the receiver has answered a frame with ACK:-1 and a later one with the
\* number of the last chunk it holds
C21_Witness ==
    /\ IsGbnReceiver /\ RcvRunning /\ expected_seq >= 1
    /\ \E x, y \in net :
          /\ x.from = RcvHost /\ y.from = RcvHost
          /\ IsACK(x.data) /\ IsACK(y.data)
          /\ AckNum(x.data) = -1 /\ AckNum(y.data) = expected_seq - 1

\* C22: END is sent by the step that takes a running sender out of its
\* routine, once, and only when every seq of 0..total-1 is recorded as
\* acknowledged (GBN: base = total; SR: acked is all of them); a sender whose
\* loop is over does nothing else, and no data frame is sent by a sender that
\* is not running.
C22_EndOnce ==
    [][/\ ends_sent' # ends_sent =>
             /\ ends_sent' = ends_sent + 1
             /\ SndRunning /\ ~SndRunning'
             /\ IF IsGbnSender THEN base = total ELSE acked = 0..(total - 1)
             /\ skind = "s1_gbn" => ack_received = 0..(total - 1)
             /\ \A x \in net' \ net : IsEND(x.data) /\ x.from = SndHost
       /\ (\E x \in net' \ net : IsEND(x.data)) => ends_sent' = ends_sent + 1
       /\ (SndRunning /\ ~SndLoop) =>
             \/ ends_sent' = ends_sent + 1
             \/ UNCHANGED sndVars /\ SndRunning'
       /\ ~SndRunning => \A x \in net' \ net : parse_packet(x.data)[1] = None]_vars
\* a sender of a transfer of more than one window has sent END and returned,
\* and END is in flight
C22_Witness ==
    /\ skind # "none" /\ ~SndRunning /\ ends_sent = 1
    /\ total > WINDOW_SIZE
    /\ \E x \in net : IsEND(x.data) /\ x.from = SndHost

\* C23: the sender's window.  Go-Back-N: 0 <= base <= next_seq <=
\* min(base + W, total) in every state, and base never decreases.  Selective
\* Repeat: the window map has at most W entries, each a seq below next_seq
\* (it had its send attempt) that is not recorded as acknowledged.
C23_SenderWindow ==
    /\ []((IsGbnSender /\ SndRunning) =>
            /\ 0 <= base /\ base <= next_seq
            /\ next_seq <= Min(base + SndWindow, total))
    /\ []((skind \in {"s1_sr", "s2_sr", "c1_sr"} /\ SndRunning) =>
            /\ Cardinality(DOMAIN window) <= SndWindow
            /\ \A seq \in DOMAIN window :
                  /\ 0 <= seq /\ seq < next_seq /\ next_seq <= total
                  /\ seq \notin acked
                  /\ window[seq] = packets(seq))
    /\ [][skind' = skind => base' >= base]_vars
\* a Go-Back-N sender whose window has slid and is full again
C23_Witness ==
    /\ IsGbnSender /\ SndRunning
    /\ base > 0 /\ next_seq = base + SndWindow

\* C24: no step puts in flight a frame whose seq the sender has recorded as
\* acknowledged: a Go-Back-N sender sends no seq below base (server1's none
\* whose flag is set), a Selective-Repeat sender none that is in acked; this
\* holds for the passes of the fill loop and for the timeout branch alike.
C24_NoAckedResend ==
    [][\A x \in net' \ net :
          (x.from = SndHost /\ parse_packet(x.data)[1] # None) =>
              LET seq == parse_packet(x.data)[1]
              IN /\ IsGbnSender => seq >= base
                 /\ skind = "s1_gbn" => seq \notin ack_received
                 /\ ~IsGbnSender => seq \notin acked
                 /\ seq \in 0..(total - 1)]_vars
\* a sender that has recorded an acknowledgement while a lower frame, not
\* acknowledged, is in flight again
C24_Witness ==
    /\ SndRunning /\ ~SndFill
    /\ \E x \in net :
          /\ x.from = SndHost /\ parse_packet(x.data)[1] # None
          /\ parse_packet(x.data)[1] \in Retransmitted
          /\ \E a \in acked \cup ack_received : parse_packet(x.data)[1] < a

\* C25: a Go-Back-N sender whose recvfrom timed out has next_seq = base, and
\* every pass of its fill loop gives the frame next_seq a send attempt
\* whatever its acknowledgement flag, so that the whole window [base,
\* min(base + W, total)) was attempted again when the sender next waits for an
\* ACK.
C25_GoBackN ==
    [][IsGbnSender =>
          /\ (\E lost \in SUBSET Retransmitted : snd_timeout(lost)) => next_seq' = base
          /\ (\E lost \in BOOLEAN : snd_frame(lost)) => Attempted
          /\ (\E m \in net, again \in BOOLEAN : snd_recv(m, again)) =>
                next_seq = Min(base + SndWindow, total)]_vars

\* C26: a Selective-Repeat receiver holds only chunks whose seq lies in
\* 0..total-1, total being the number it recorded for the session, and that
\* number, once recorded, is not changed by a later frame.
C26_SrKeysInRange ==
    /\ [](IsSrReceiver =>
            \A seq \in DOMAIN received_packets :
                0 <= seq /\ expected_total # None /\ seq < expected_total)
    /\ [][(IsSrReceiver /\ rkind' = rkind /\ expected_total # None) =>
             expected_total' = expected_total]_vars

\* C27: a receive loop that reads a datagram which is not END and which
\* parse_packet does not decode keeps its map, its list, expected_seq and
\* expected_total, sends nothing, and goes on running.
C27_DecodeFailureIgnored ==
    [][\A m \in net :
          (/\ RcvRunning /\ m.to = RcvHost
           /\ m.data # END /\ parse_packet(m.data)[1] = None
           /\ \E again \in BOOLEAN : rcv_datagram(m, again)) =>
              /\ UNCHANGED << rkind, expected_seq, received_packets, received_data,
                              expected_total, rexit, sink >>
              /\ RcvRunning'
              /\ net' \subseteq net]_vars
\* a receiver that holds a chunk is about to read a datagram that is no frame
C27_Witness ==
    /\ RcvRunning
    /\ DOMAIN received_packets # {} \/ received_data # << >>
    /\ \E m \in net :
          m.to = RcvHost /\ m.from = "P" /\ m.data # END /\ parse_packet(m.data)[1] = None

\* C28: every send attempt of a data frame passes the loss simulation: where
\* a pass of the fill loop can send the frame next_seq it can also suppress
\* it, and where the timeout branch can resend the frames it retransmits it
\* can also suppress any of them.
C28_LossSimEverywhere ==
    /\ (Attempted /\ ENABLED snd_frame(FALSE)) => ENABLED snd_frame(TRUE)
    /\ \A lost \in SUBSET Retransmitted :
          (ENABLED snd_timeout({})) => ENABLED snd_timeout(lost)

\* C29: what the sender has recorded as acknowledged, the receiver holds:
\* every seq below a Go-Back-N sender's base, every seq flagged in
\* ack_received or in acked is a key of the receiver's map (an index of its
\* list), and a Go-Back-N sender's base is at most the expected_seq of a
\* Go-Back-N receiver.
C29_AckedIsBuffered ==
    /\ IsGbnSender => \A i \in 0..(base - 1) : Holds(i)
    /\ \A i \in ack_received \cup acked : Holds(i)
    /\ (IsGbnSender /\ IsGbnReceiver) => base <= expected_seq
\* both ends in the middle of a transfer, the receiver ahead of the sender's
\* record by an acknowledgement that is lost or still in flight
C29_Witness ==
    /\ SndRunning /\ RcvRunning
    /\ \/ IsGbnSender /\ IsGbnReceiver /\ 0 < base /\ base < expected_seq
       \/ ~IsGbnSender /\ acked # {} /\ \E i \in DOMAIN received_packets : i \notin acked

====
